---------------------------- MODULE Spec2Model ----------------------------
(***************************************************************************)
(* Model of streamlit_app.py: the CLABSI and CAUTI calculator tabs.        *)
(*                                                                         *)
(* A tab is one run of render_clabsi_tab / render_cauti_tab over the       *)
(* values its widgets hold.  Dates are calendar-day ordinals (day 1 is     *)
(* 2025-01-01), so date subtraction and timedelta(days=k) are integer      *)
(* arithmetic.  An Optional[date] is a sequence: <<>> is None, <<d>> is d. *)
(* Temperatures are Python floats; they are modelled as IEEE-754 doubles   *)
(* with round-to-nearest-even, held as integers scaled by 2^48.            *)
(***************************************************************************)
EXTENDS Integers, Sequences, FiniteSets, TLC

VARIABLES tab, inp, out

vars == <<tab, inp, out>>

(***************************************************************************)
(* Bounds of the model.                                                    *)
(***************************************************************************)
\* Dates range over the calendar days 1..MaxDay.
MaxDay == 3

Dates == 1..MaxDay

None == <<>>

Some(d) == <<d>>

(***************************************************************************)
(* IEEE-754 binary64 arithmetic on the values the temperature takes.       *)
(* A double v with 16 <= v < 512 is a multiple of 2^-48; it is held as the *)
(* integer v * 2^48 in four little-endian limbs of 16 bits, so limb 4 is   *)
(* the integer part of v.                                                  *)
(***************************************************************************)
LimbBase == 2^16

\* q and r with N = q * d + r, 0 <= r < d, for a small divisor d.
ShortDivMod(N, d) ==
    LET q3 == N[4] \div d
        t2 == (N[4] % d) * LimbBase + N[3]
        q2 == t2 \div d
        t1 == (t2 % d) * LimbBase + N[2]
        q1 == t1 \div d
        t0 == (t1 % d) * LimbBase + N[1]
        q0 == t0 \div d
    IN  [q |-> <<q0, q1, q2, q3>>, r |-> t0 % d]

\* N * m for a small factor m.
MulSmall(N, m) ==
    LET p0 == N[1] * m
        p1 == N[2] * m + (p0 \div LimbBase)
        p2 == N[3] * m + (p1 \div LimbBase)
        p3 == N[4] * m + (p2 \div LimbBase)
    IN  <<p0 % LimbBase, p1 % LimbBase, p2 % LimbBase, p3>>

\* N + a for a small addend a.
AddSmall(N, a) ==
    LET s0 == N[1] + a
        s1 == N[2] + (s0 \div LimbBase)
        s2 == N[3] + (s1 \div LimbBase)
        s3 == N[4] + (s2 \div LimbBase)
    IN  <<s0 % LimbBase, s1 % LimbBase, s2 % LimbBase, s3>>

\* The spacing of the doubles in the binade of a value with integer part
\* ip (16 <= ip < 512), in units of 2^-48: 2^(e-52) for 2^e <= v < 2^(e+1).
UlpUnits(ip) ==
    IF ip < 32 THEN 1
    ELSE IF ip < 64 THEN 2
    ELSE IF ip < 128 THEN 4
    ELSE IF ip < 256 THEN 8
    ELSE 16

\* The double nearest to the rational N / d (in units of 2^-48), ties to
\* the even significand: the one rounding every IEEE operation performs.
RoundQuot(N, d) ==
    LET u    == UlpUnits(ShortDivMod(N, d).q[4])
        dm   == ShortDivMod(N, d * u)
        up   == \/ 2 * dm.r > d * u
                \/ 2 * dm.r = d * u /\ dm.q[1] % 2 = 1
    IN  MulSmall(IF up THEN AddSmall(dm.q, 1) ELSE dm.q, u)

\* The double of the integer k.
FloatOfInt(k) == <<0, 0, 0, k>>

\* The float st.number_input returns for an entry of t tenths of a degree
\* (format "%.1f", step 0.1): the double nearest to t / 10.
FloatOfTenths(t) == RoundQuot(FloatOfInt(t), 10)

\* a - k, a * k and a / k for a double a and a small integer k, each
\* rounded once.
FSubInt(a, k) == RoundQuot(<<a[1], a[2], a[3], a[4] - k>>, 1)

FMulInt(a, k) == RoundQuot(MulSmall(a, k), 1)

FDivInt(a, k) == RoundQuot(a, k)

\* a > k for a double a and an integer k.
FGtInt(a, k) == a[4] > k \/ (a[4] = k /\ <<a[1], a[2], a[3]>> # <<0, 0, 0>>)

\* return (f - 32) * 5/9
f_to_c(f) == FDivInt(FMulInt(FSubInt(f, 32), 5), 9)

\* Mutant: the threshold itself counts as a fever (>= 38.0).
IsFever_at_threshold(temp_c) == temp_c[4] >= 38

\* cl_fever = (cl_temp_c > 38.0); fever_u = (u_temp_c > 38.0)
IsFever(temp_c) == FGtInt(temp_c, 38)


\* The fever flag of an entry of t tenths of a degree Fahrenheit.
FeverOfEntry(t) == IsFever(f_to_c(FloatOfTenths(t)))

(***************************************************************************)
(* Shared helpers.                                                         *)
(***************************************************************************)
\* Mutant: the exclusive difference, without the insertion day.
inclusive_days_exclusive(start, end) == IF start > end THEN 0 ELSE end - start

\* Inclusive calendar-day count. Returns 0 if start > end.
inclusive_days(start, end) == IF start > end THEN 0 ELSE (end - start) + 1

\* The year, month and day of calendar day d (day 1 is 2025-01-01, whose
\* proleptic Gregorian ordinal is 739252), as datetime.date holds them.
date_fields(d) ==
    LET z   == d + 739556
        era == z \div 146097
        doe == z - era * 146097
        yoe == (doe - doe \div 1460 + doe \div 36524 - doe \div 146096) \div 365
        doy == doe - (365 * yoe + yoe \div 4 - yoe \div 100)
        mp  == (5 * doy + 2) \div 153
        m   == IF mp < 10 THEN mp + 3 ELSE mp - 9
    IN  [year  |-> yoe + era * 400 + (IF m <= 2 THEN 1 ELSE 0),
         month |-> m,
         day   |-> doy - (153 * mp + 2) \div 5 + 1]

MonthAbbr ==
    <<"Jan", "Feb", "Mar", "Apr", "May", "Jun",
      "Jul", "Aug", "Sep", "Oct", "Nov", "Dec">>

\* date.strftime("%b %d, %Y"): the month's abbreviation, the day in two
\* digits, the year.
strftime(d) ==
    LET f == date_fields(d)
    IN  [b |-> MonthAbbr[f.month], d |-> <<f.day \div 10, f.day % 10>>, Y |-> f.year]

NoAnchorText == "(set assessment date or culture date)"

\* Mutant: the window is anchor - 3 .. anchor + 2.
iwp_range_text_short(anchor) ==
    IF anchor = None
    THEN [text |-> NoAnchorText]
    ELSE [text |-> "IWP", start |-> strftime(anchor[1] - 3),
          end |-> strftime(anchor[1] + 2)]

\* The window text: the fallback text for no anchor, else the text naming
\* the formatted dates anchor - 3 and anchor + 3.
iwp_range_text(anchor) ==
    IF anchor = None
    THEN [text |-> NoAnchorText]
    ELSE [text |-> "IWP", start |-> strftime(anchor[1] - 3),
          end |-> strftime(anchor[1] + 3)]

\* Shows the errors and returns True if there are any.
invalid_dates_guard(problems) == problems # <<>>

InsertionAfterAssessment == "Insertion date cannot be after the assessment date."

InsertionAfterEnd == "Insertion date cannot be after the removal/assessment date."

(***************************************************************************)
(* Steps shared by the two calculator tabs.                                *)
(***************************************************************************)
\* Mutant: the inference is left out.
infer_in_place_never(in_place, removal_date, eval_date) == in_place

\* if not in_place and removal_date and removal_date == eval_date:
\*     in_place = True
infer_in_place(in_place, removal_date, eval_date) ==
    IF ~in_place /\ removal_date # None /\ removal_date = Some(eval_date)
    THEN TRUE
    ELSE in_place

\* Mutant: the second comparison is an elif of the first.
date_problems_first_only(insertion_date, eval_date, effective_end) ==
    IF insertion_date > eval_date THEN <<InsertionAfterAssessment>>
    ELSE <<>>

\* problems = []; one message appended per failed comparison, in order.
date_problems(insertion_date, eval_date, effective_end) ==
    (IF insertion_date > eval_date THEN <<InsertionAfterAssessment>> ELSE <<>>)
    \o (IF insertion_date > effective_end THEN <<InsertionAfterEnd>> ELSE <<>>)

\* Mutant: eligibility begins on day 2 (days >= 2).
device_day_eligible_from_day_two(days) == days >= 2

\* eligible = days > 2
device_day_eligible(days) == days > 2

\* iwp_anchor = cx_date or eval_date
iwp_anchor(cx_date, eval_date) == IF cx_date # None THEN cx_date ELSE Some(eval_date)

\* Mutant: the symptom branch is tested before the criteria branch.
classification_symptom_first(meets, symptom_any) ==
    IF symptom_any THEN "AtRisk" ELSE IF meets THEN "Meets" ELSE "LowRisk"

\* if meets: st.error(...) elif symptom_any: st.warning(...) else: st.success(...)
classification(meets, symptom_any) ==
    IF meets THEN "Meets" ELSE IF symptom_any THEN "AtRisk" ELSE "LowRisk"

NoPositiveBloodCulture == "No positive blood culture."

NoPositiveUrineCulture == "No positive urine culture."

NotEligibleLineDays == "Not eligible (>2 central-line days) by assessment date (eligible starting Day 3)."

NotEligibleCatheterDays == "Not eligible (>2 catheter-days) by assessment date (eligible starting Day 3)."

NotDeviceAssociated == "Not device-associated (not in place on assessment date or removed day before)."

NoEligibleSymptom == "No eligible symptom within IWP."

(***************************************************************************)
(* render_clabsi_tab.                                                      *)
(***************************************************************************)
\* cl_effective_end = cl_eval_date if cl_in_place else (cl_removal_date or cl_eval_date)
cl_effective_end(in_place, removal_date, eval_date) ==
    IF in_place THEN eval_date
    ELSE IF removal_date # None THEN removal_date[1] ELSE eval_date

\* True if in place, else bool(removal) and removal == eval - timedelta(days=1)
cl_device_associated(in_place, removal_date, eval_date) ==
    IF in_place THEN TRUE
    ELSE removal_date # None /\ removal_date = Some(eval_date - 1)

\* cl_symptom_any = cl_fever or hypotension or chills
cl_symptom_any(fever, hypotension, chills) == fever \/ hypotension \/ chills

\* meets_clabsi_criteria = (positive_bcx and cl_eligible and cl_device_associated)
meets_clabsi_criteria(positive_bcx, eligible, device_associated) ==
    positive_bcx /\ eligible /\ device_associated

\* The reasons list, built only when the criteria are not met.
clabsi_reasons(meets, positive_bcx, eligible, device_associated) ==
    IF meets THEN <<>>
    ELSE (IF ~positive_bcx THEN <<NoPositiveBloodCulture>> ELSE <<>>)
         \o (IF ~eligible THEN <<NotEligibleLineDays>> ELSE <<>>)
         \o (IF ~device_associated THEN <<NotDeviceAssociated>> ELSE <<>>)

\* One run of the tab over the widget values i.
clabsi_run(i) ==
    IF ~i.enable THEN [status |-> "off"]
    ELSE
    LET in_place      == infer_in_place(i.in_place, i.removal_date, i.eval_date)
        effective_end == cl_effective_end(in_place, i.removal_date, i.eval_date)
        problems      == date_problems(i.insertion_date, i.eval_date, effective_end)
        days          == inclusive_days(i.insertion_date, effective_end)
        eligible      == device_day_eligible(days)
        associated    == cl_device_associated(in_place, i.removal_date, i.eval_date)
        fever         == FeverOfEntry(i.temp_f)
        symptom_any   == cl_symptom_any(fever, i.hypotension, i.chills)
        meets         == meets_clabsi_criteria(i.positive_cx, eligible, associated)
    IN  IF invalid_dates_guard(problems)
        THEN [status |-> "invalid", errors |-> problems]
        ELSE [status            |-> "determined",
              errors            |-> <<>>,
              in_place          |-> in_place,
              effective_end     |-> effective_end,
              days              |-> days,
              eligible          |-> eligible,
              device_associated |-> associated,
              iwp               |-> iwp_range_text(iwp_anchor(i.cx_date, i.eval_date)),
              fever             |-> fever,
              symptoms          |-> [fever |-> fever, hypotension |-> i.hypotension,
                                     chills |-> i.chills],
              suppressed        |-> FALSE,
              symptom_any       |-> symptom_any,
              meets             |-> meets,
              classification    |-> classification(meets, symptom_any),
              reasons           |-> clabsi_reasons(meets, i.positive_cx, eligible,
                                                   associated)]

(***************************************************************************)
(* render_cauti_tab.                                                       *)
(***************************************************************************)
\* Mutant: the days are always counted through the assessment date.
cauti_effective_end_assessment(in_place, removal_date, eval_date) == eval_date

\* effective_end = cauti_eval_date if cauti_in_place else cauti_removal_date
cauti_effective_end(in_place, removal_date, eval_date) ==
    IF in_place THEN eval_date ELSE removal_date[1]

\* Mutant: a removal two days before the assessment still counts.
cauti_device_associated_two_days(in_place, removal_date, eval_date) ==
    IF in_place THEN TRUE
    ELSE removal_date[1] < eval_date /\ removal_date[1] >= eval_date - 2

\* True if in place, else removal == eval - timedelta(days=1)
cauti_device_associated(in_place, removal_date, eval_date) ==
    IF in_place THEN TRUE ELSE removal_date = Some(eval_date - 1)

\* Mutant: dysuria is not suppressed while the catheter is in place.
normalize_urinary_keeps_dysuria(in_place, urgency_raw, frequency_raw, dysuria_raw) ==
    IF in_place
    THEN [urgency |-> FALSE, frequency |-> FALSE, dysuria |-> dysuria_raw]
    ELSE [urgency |-> urgency_raw, frequency |-> frequency_raw, dysuria |-> dysuria_raw]

\* urgency = frequency = dysuria = False when in place, else the raw values
normalize_urinary(in_place, urgency_raw, frequency_raw, dysuria_raw) ==
    IF in_place
    THEN [urgency |-> FALSE, frequency |-> FALSE, dysuria |-> FALSE]
    ELSE [urgency |-> urgency_raw, frequency |-> frequency_raw, dysuria |-> dysuria_raw]

\* u_symptom_any = any([fever_u, suprapubic, cva, urgency, frequency, dysuria])
u_symptom_any(fever, suprapubic, cva, urinary) ==
    fever \/ suprapubic \/ cva \/ urinary.urgency \/ urinary.frequency \/ urinary.dysuria

\* meets_cauti_criteria = positive_ucx and eligible_days and device_associated
\*                        and u_symptom_any
meets_cauti_criteria(positive_ucx, eligible, device_associated, symptom_any) ==
    positive_ucx /\ eligible /\ device_associated /\ symptom_any

\* Mutant: the device-association reason is appended before the day reason.
cauti_reasons_swapped(meets, positive_ucx, eligible, device_associated, symptom_any) ==
    IF meets THEN <<>>
    ELSE (IF ~positive_ucx THEN <<NoPositiveUrineCulture>> ELSE <<>>)
         \o (IF ~device_associated THEN <<NotDeviceAssociated>> ELSE <<>>)
         \o (IF ~eligible THEN <<NotEligibleCatheterDays>> ELSE <<>>)
         \o (IF ~symptom_any THEN <<NoEligibleSymptom>> ELSE <<>>)

\* The reasons list, built only when the criteria are not met.
cauti_reasons(meets, positive_ucx, eligible, device_associated, symptom_any) ==
    IF meets THEN <<>>
    ELSE (IF ~positive_ucx THEN <<NoPositiveUrineCulture>> ELSE <<>>)
         \o (IF ~eligible THEN <<NotEligibleCatheterDays>> ELSE <<>>)
         \o (IF ~device_associated THEN <<NotDeviceAssociated>> ELSE <<>>)
         \o (IF ~symptom_any THEN <<NoEligibleSymptom>> ELSE <<>>)

\* One run of the tab over the widget values i.
cauti_run(i) ==
    IF ~i.enable THEN [status |-> "off"]
    ELSE
    LET in_place      == infer_in_place(i.in_place, i.removal_date, i.eval_date)
        effective_end == cauti_effective_end(in_place, i.removal_date, i.eval_date)
        problems      == date_problems(i.insertion_date, i.eval_date, effective_end)
        days          == inclusive_days(i.insertion_date, effective_end)
        eligible      == device_day_eligible(days)
        associated    == cauti_device_associated(in_place, i.removal_date, i.eval_date)
        fever         == FeverOfEntry(i.temp_f)
        urinary       == normalize_urinary(in_place, i.urgency_raw, i.frequency_raw,
                                           i.dysuria_raw)
        symptom_any   == u_symptom_any(fever, i.suprapubic, i.cva, urinary)
        meets         == meets_cauti_criteria(i.positive_cx, eligible, associated,
                                              symptom_any)
    IN  IF invalid_dates_guard(problems)
        THEN [status |-> "invalid", errors |-> problems]
        ELSE [status            |-> "determined",
              errors            |-> <<>>,
              in_place          |-> in_place,
              effective_end     |-> effective_end,
              days              |-> days,
              eligible          |-> eligible,
              device_associated |-> associated,
              iwp               |-> iwp_range_text(iwp_anchor(i.cx_date, i.eval_date)),
              fever             |-> fever,
              symptoms          |-> [fever |-> fever, suprapubic |-> i.suprapubic,
                                     cva |-> i.cva, urgency |-> urinary.urgency,
                                     frequency |-> urinary.frequency,
                                     dysuria |-> urinary.dysuria],
              suppressed        |-> in_place,
              symptom_any       |-> symptom_any,
              meets             |-> meets,
              classification    |-> classification(meets, symptom_any),
              reasons           |-> cauti_reasons(meets, i.positive_cx, eligible,
                                                  associated, symptom_any)]

(***************************************************************************)
(* The widget values a run can meet.                                       *)
(***************************************************************************)
\* number_input(min_value=80.0, max_value=113.0, value=98.6, step=0.1), in tenths.
MinTempTenths == 800

MaxTempTenths == 1130

DefaultTempTenths == 986

AllTemps == MinTempTenths..MaxTempTenths

\* The entries the date-driven specification draws: the widget's default and
\* the entries on either side of the fever threshold (100.4 and 100.5).
SampleTemps == {DefaultTempTenths, 1004, 1005}

\* The toggle "Enter dates now" is off: no other widget exists.
ToggleOff == [enable |-> FALSE]

\* cl_removal_date is None unless the line is declared not in place; the
\* code treats the removal widget's value as an Optional date (it falls back
\* on the assessment date and guards its comparisons).  The widget's
\* min_value and max_value are not assumed: the code validates the dates
\* itself.
ClabsiInputs(dates, temps) ==
    {ToggleOff} \cup
    {i \in [enable: {TRUE}, insertion_date: dates, eval_date: dates,
            in_place: BOOLEAN, removal_date: {None} \cup {Some(d) : d \in dates},
            cx_date: {None} \cup {Some(d) : d \in dates}, temp_f: temps,
            hypotension: BOOLEAN, chills: BOOLEAN, positive_cx: BOOLEAN] :
        i.in_place => i.removal_date = None}

\* The removal widget is always rendered with value=cauti_eval_date, so it
\* always holds a date (disabled while the catheter is declared in place).
CautiInputs(dates, temps) ==
    {ToggleOff} \cup
    [enable: {TRUE}, insertion_date: dates, eval_date: dates,
     in_place: BOOLEAN, removal_date: {Some(d) : d \in dates},
     cx_date: {None} \cup {Some(d) : d \in dates}, temp_f: temps,
     suprapubic: BOOLEAN, cva: BOOLEAN, urgency_raw: BOOLEAN,
     frequency_raw: BOOLEAN, dysuria_raw: BOOLEAN, positive_cx: BOOLEAN]

Pending == [status |-> "pending"]

(***************************************************************************)
(* The state machine: a tab holds its widget values and runs once.         *)
(***************************************************************************)
InitWith(dates, temps) ==
    /\ tab \in {"CLABSI", "CAUTI"}
    /\ inp \in IF tab = "CLABSI" THEN ClabsiInputs(dates, temps)
               ELSE CautiInputs(dates, temps)
    /\ out = Pending

Init == InitWith(Dates, SampleTemps)

render_clabsi_tab ==
    /\ tab = "CLABSI"
    /\ out = Pending
    /\ out' = clabsi_run(inp)
    /\ UNCHANGED <<tab, inp>>

render_cauti_tab ==
    /\ tab = "CAUTI"
    /\ out = Pending
    /\ out' = cauti_run(inp)
    /\ UNCHANGED <<tab, inp>>

Next == render_clabsi_tab \/ render_cauti_tab

Spec == Init /\ [][Next]_vars

\* The temperature entry over its whole range, on a single calendar day.
InitFever == InitWith({1}, AllTemps)

SpecFever == InitFever /\ [][Next]_vars

Determined == out.status = "determined"

TypeOK ==
    /\ tab \in {"CLABSI", "CAUTI"}
    /\ out.status \in {"pending", "off", "invalid", "determined"}

(***************************************************************************)
(* What the claims read.                                                   *)
(***************************************************************************)
IsClabsi == tab = "CLABSI"

IsCauti == tab = "CAUTI"

\* The tab has run over enabled widgets.
Rendered == out # Pending /\ inp.enable

\* The run of the current tab over widget values i.
RunOf(i) == IF IsClabsi THEN clabsi_run(i) ELSE cauti_run(i)

\* The device is in place on the assessment date: declared, or removed on it.
InPlaceOnAssessment == inp.in_place \/ inp.removal_date = Some(inp.eval_date)

\* Any raw symptom the pipeline may count, read from the widgets.
EligibleSymptomPresent ==
    IF IsClabsi
    THEN out.fever \/ inp.hypotension \/ inp.chills
    ELSE \/ out.fever \/ inp.suprapubic \/ inp.cva
         \/ ~InPlaceOnAssessment /\ (inp.urgency_raw \/ inp.frequency_raw \/ inp.dysuria_raw)

\* The first row of the precedence table.
MeetsCondition ==
    /\ inp.positive_cx /\ out.eligible /\ out.device_associated
    /\ IsCauti => EligibleSymptomPresent

(***************************************************************************)
(* C1: for every validated input the classification is the first match of  *)
(* Meets (positive culture, day-eligible, device-associated, and for CAUTI *)
(* an eligible symptom), then At Risk (an eligible symptom), then Low      *)
(* Risk; each run yields exactly one of the three.                         *)
(***************************************************************************)
C1_FirstMatch ==
    (Rendered /\ Determined) =>
        /\ out.classification \in {"Meets", "AtRisk", "LowRisk"}
        /\ out.classification =
              IF MeetsCondition THEN "Meets"
              ELSE IF EligibleSymptomPresent THEN "AtRisk"
              ELSE "LowRisk"

\* CLABSI meets the criteria without any symptom while a CAUTI run with the
\* same facts would not: here the CLABSI side of the asymmetry.
C1_Witness ==
    /\ Rendered /\ Determined /\ IsClabsi
    /\ out.classification = "Meets" /\ ~EligibleSymptomPresent

(***************************************************************************)
(* C2: the CAUTI example: insertion 2025-01-01, assessment 2025-01-03,     *)
(* catheter not in place and removed 2025-01-02, positive urine culture,   *)
(* no fever, suprapubic tenderness.                                        *)
(***************************************************************************)
C2_Example ==
    /\ IsCauti /\ Rendered
    /\ inp.insertion_date = 1 /\ inp.eval_date = 3
    /\ ~inp.in_place /\ inp.removal_date = Some(2)
    /\ inp.positive_cx /\ inp.suprapubic
    /\ inp.temp_f <= 1004

\* C2 as stated: the example yields 3 device days, eligible, associated, a
\* symptom, and Meets Criteria.
C2_AsStated ==
    C2_Example =>
        /\ Determined
        /\ out.days = 3 /\ out.eligible /\ out.device_associated
        /\ out.symptom_any /\ out.classification = "Meets"

\* C2 amended: the example yields 2 device days (1 and 2 January, counted
\* through the removal date), not eligible, associated, a symptom, and the
\* classification At Risk with the day-eligibility reason alone.
C2_Amended ==
    C2_Example =>
        /\ Determined
        /\ out.effective_end = 2 /\ out.days = 2 /\ ~out.eligible
        /\ out.device_associated /\ ~out.fever /\ out.symptom_any
        /\ out.classification = "AtRisk"
        /\ out.reasons = <<NotEligibleCatheterDays>>

C2_Witness == C2_Example /\ Determined /\ out.days = 2

(***************************************************************************)
(* C3: a device declared not in place with removal date = assessment date  *)
(* gives, in both pipelines, exactly the outputs of the same input         *)
(* declared in place: effective end = assessment date, device-associated,  *)
(* the same messages, day count, eligibility, suppression, classification  *)
(* and reasons.                                                            *)
(***************************************************************************)
C3_RemovedOnAssessmentDay ==
    (Rendered /\ ~inp.in_place /\ inp.removal_date = Some(inp.eval_date)) =>
        /\ out = RunOf([inp EXCEPT !.in_place = TRUE])
        /\ Determined =>
              /\ out.in_place /\ out.effective_end = inp.eval_date
              /\ out.device_associated
              /\ out.days = inclusive_days(inp.insertion_date, inp.eval_date)
              /\ IsCauti => /\ out.suppressed
                            /\ ~out.symptoms.urgency /\ ~out.symptoms.frequency
                            /\ ~out.symptoms.dysuria

\* A catheter removed on the assessment day with a raw urgency entry: the
\* entry is suppressed as for a catheter in place.
C3_Witness ==
    /\ Rendered /\ Determined /\ IsCauti
    /\ ~inp.in_place /\ inp.removal_date = Some(inp.eval_date)
    /\ inp.urgency_raw /\ out.device_associated /\ ~out.symptom_any

(***************************************************************************)
(* C4: in both pipelines the device is associated if it is in place on the *)
(* assessment date (after inference), and otherwise exactly when a removal *)
(* date is recorded and equals assessment date - 1; so not when removed    *)
(* two or more days before, nor when no removal date is recorded.          *)
(***************************************************************************)
C4_DeviceAssociation ==
    (Rendered /\ Determined) =>
        /\ out.device_associated =
              \/ InPlaceOnAssessment
              \/ inp.removal_date # None /\ inp.removal_date[1] = inp.eval_date - 1
        /\ (~inp.in_place /\ inp.removal_date # None
              /\ inp.removal_date[1] <= inp.eval_date - 2) => ~out.device_associated
        /\ (~inp.in_place /\ inp.removal_date = None) => ~out.device_associated

\* A catheter removed two days before the assessment is not associated.
C4_Witness ==
    /\ Rendered /\ Determined /\ IsCauti
    /\ ~inp.in_place /\ inp.removal_date = Some(inp.eval_date - 2)
    /\ ~out.device_associated

(***************************************************************************)
(* C5: a device declared not in place with no removal date ends the        *)
(* evaluation in a validation failure (a message, no classification)       *)
(* instead of an evaluation with the assessment date in its place.         *)
(***************************************************************************)
C5_MissingRemovalDate ==
    (Rendered /\ ~inp.in_place /\ inp.removal_date = None) =>
        /\ out.status = "invalid"
        /\ out.errors # <<>>

(***************************************************************************)
(* C6: when insertion > assessment or insertion > effective end, one       *)
(* message per violated condition is reported (both when both are) and     *)
(* nothing else is computed; when neither is violated no message is        *)
(* reported and a classification is produced.  The effective end is the    *)
(* assessment date if in place after inference, else the removal date (the *)
(* assessment date where none is recorded, as the code reads it).          *)
(***************************************************************************)
EffectiveEnd ==
    IF InPlaceOnAssessment THEN inp.eval_date
    ELSE IF inp.removal_date # None THEN inp.removal_date[1]
    ELSE inp.eval_date

C6_DateOrder ==
    Rendered =>
        LET afterAssessment == inp.insertion_date > inp.eval_date
            afterEnd        == inp.insertion_date > EffectiveEnd
        IN  IF afterAssessment \/ afterEnd
            THEN /\ out.status = "invalid"
                 /\ DOMAIN out = {"status", "errors"}
                 /\ out.errors =
                       (IF afterAssessment THEN <<InsertionAfterAssessment>> ELSE <<>>)
                       \o (IF afterEnd THEN <<InsertionAfterEnd>> ELSE <<>>)
            ELSE /\ Determined
                 /\ out.errors = <<>>
                 /\ out.classification \in {"Meets", "AtRisk", "LowRisk"}

\* Insertion after the removal date but not after the assessment date: the
\* second message alone, and no determination.
C6_Witness ==
    /\ Rendered /\ out.status = "invalid"
    /\ inp.insertion_date <= inp.eval_date
    /\ out.errors = <<InsertionAfterEnd>>

(***************************************************************************)
(* C7: in the CAUTI pipeline urgency, frequency and dysuria are forced to  *)
(* false while the catheter is in place on the assessment date (declared   *)
(* or inferred), so they add to neither Meets nor At Risk; otherwise they  *)
(* equal the raw entries; fever, suprapubic and CVA tenderness pass        *)
(* through whatever the device status.                                     *)
(***************************************************************************)
C7_SymptomNormalization ==
    (Rendered /\ Determined /\ IsCauti) =>
        /\ out.suppressed = InPlaceOnAssessment
        /\ out.symptoms.urgency = (~InPlaceOnAssessment /\ inp.urgency_raw)
        /\ out.symptoms.frequency = (~InPlaceOnAssessment /\ inp.frequency_raw)
        /\ out.symptoms.dysuria = (~InPlaceOnAssessment /\ inp.dysuria_raw)
        /\ out.symptoms.suprapubic = inp.suprapubic
        /\ out.symptoms.cva = inp.cva
        /\ out.symptoms.fever = (inp.temp_f > 1004)
        /\ out.symptom_any = (\E k \in DOMAIN out.symptoms : out.symptoms[k])
        /\ (InPlaceOnAssessment /\ inp.temp_f <= 1004 /\ ~inp.suprapubic /\ ~inp.cva)
              => out.classification = "LowRisk"

\* A catheter in place, every other criterion met, and dysuria the only
\* symptom entered: Low Risk.
C7_Witness ==
    /\ Rendered /\ Determined /\ IsCauti
    /\ inp.in_place /\ inp.dysuria_raw /\ inp.positive_cx
    /\ out.eligible /\ out.device_associated
    /\ out.classification = "LowRisk"

(***************************************************************************)
(* C8: when the classification is not Meets the reason list holds exactly  *)
(* one entry per failed condition and none for a condition that held, in   *)
(* the order culture, day eligibility, device association, (CAUTI)         *)
(* symptom; it is then non-empty; no list is produced for Meets.           *)
(***************************************************************************)
ExpectedReasons ==
    (IF ~inp.positive_cx
     THEN <<IF IsClabsi THEN NoPositiveBloodCulture ELSE NoPositiveUrineCulture>>
     ELSE <<>>)
    \o (IF ~out.eligible
        THEN <<IF IsClabsi THEN NotEligibleLineDays ELSE NotEligibleCatheterDays>>
        ELSE <<>>)
    \o (IF ~out.device_associated THEN <<NotDeviceAssociated>> ELSE <<>>)
    \o (IF IsCauti /\ ~EligibleSymptomPresent THEN <<NoEligibleSymptom>> ELSE <<>>)

C8_UnmetReasons ==
    (Rendered /\ Determined) =>
        IF out.classification = "Meets"
        THEN out.reasons = <<>>
        ELSE out.reasons = ExpectedReasons /\ out.reasons # <<>>

\* A CAUTI run that fails on day eligibility and device association only.
C8_Witness ==
    /\ Rendered /\ Determined /\ IsCauti
    /\ out.reasons = <<NotEligibleCatheterDays, NotDeviceAssociated>>

(***************************************************************************)
(* C9: eligible is exactly deviceDays > 2; with a count of 2 or less, in   *)
(* both pipelines and whatever the culture and symptoms, the               *)
(* classification is not Meets and the reasons include the day-eligibility *)
(* failure.                                                                *)
(***************************************************************************)
C9_DayEligibilityGate ==
    (Rendered /\ Determined) =>
        /\ out.days = (EffectiveEnd - inp.insertion_date) + 1
        /\ out.eligible = (out.days > 2)
        /\ out.days <= 2 =>
              /\ out.classification # "Meets"
              /\ \E k \in DOMAIN out.reasons :
                     out.reasons[k] = IF IsClabsi THEN NotEligibleLineDays
                                      ELSE NotEligibleCatheterDays

\* Two device days with a positive culture, an associated device and a
\* symptom: not Meets.
C9_Witness ==
    /\ Rendered /\ Determined
    /\ out.days = 2 /\ inp.positive_cx /\ out.device_associated /\ out.symptom_any
    /\ out.classification = "AtRisk"

(***************************************************************************)
(* C10: the fever flag is celsius > 38.0 for celsius = (f - 32) * 5/9; over *)
(* entries in steps of 0.1 F it is false at 100.4 F and below and true at  *)
(* 100.5 F and above, alike in both pipelines.                             *)
(***************************************************************************)
C10_FeverThreshold ==
    (Rendered /\ Determined) =>
        /\ out.fever = (inp.temp_f >= 1005)
        /\ out.fever = ((inp.temp_f - 320) * 5 > 38 * 90)
        /\ out.symptoms.fever = out.fever

\* 100.4 F is 38.0 C exactly: no fever.
C10_Witness ==
    /\ Rendered /\ Determined /\ inp.temp_f = 1004 /\ ~out.fever
    /\ out.symptom_any = FALSE

(***************************************************************************)
(* The shared helpers called on their own, beside the two tabs.            *)
(***************************************************************************)
\* The helpers' dates range over the calendar days 1..MaxHelperDay.
MaxHelperDay == 40

HelperDates == 1..MaxHelperDay

InitHelpers ==
    \/ Init
    \/ /\ tab = "inclusive_days"
       /\ inp \in [start: HelperDates, end: HelperDates]
       /\ out = Pending
    \/ /\ tab = "iwp_range_text"
       /\ inp \in [anchor: {None} \cup {Some(d) : d \in HelperDates}]
       /\ out = Pending

call_inclusive_days ==
    /\ tab = "inclusive_days"
    /\ out = Pending
    /\ out' = [status |-> "returned", value |-> inclusive_days(inp.start, inp.end)]
    /\ UNCHANGED <<tab, inp>>

call_iwp_range_text ==
    /\ tab = "iwp_range_text"
    /\ out = Pending
    /\ out' = [status |-> "returned", value |-> iwp_range_text(inp.anchor)]
    /\ UNCHANGED <<tab, inp>>

NextHelpers == Next \/ call_inclusive_days \/ call_iwp_range_text

SpecHelpers == InitHelpers /\ [][NextHelpers]_vars

IsTab == IsClabsi \/ IsCauti

(***************************************************************************)
(* C11: inclusive_days(start, end) is 0 whenever start > end and otherwise *)
(* (end - start) + 1, the number of calendar days from start through end,  *)
(* so inclusive_days(d, d) = 1; the device-day count of each pipeline is   *)
(* inclusive_days(insertion date, effective end).                          *)
(***************************************************************************)
C11_InclusiveDays ==
    /\ (tab = "inclusive_days" /\ out # Pending) =>
          /\ out.value = Cardinality(inp.start..inp.end)
          /\ inp.start > inp.end => out.value = 0
          /\ inp.start <= inp.end => out.value = (inp.end - inp.start) + 1
          /\ inp.start = inp.end => out.value = 1
    /\ (IsTab /\ Rendered /\ Determined) =>
          /\ out.effective_end = EffectiveEnd
          /\ out.days = Cardinality(inp.insertion_date..EffectiveEnd)
          /\ out.days >= 1

\* A start after the end: the count is 0.
C11_Witness ==
    /\ tab = "inclusive_days" /\ out # Pending
    /\ inp.start > inp.end /\ out.value = 0

(***************************************************************************)
(* C12: the window anchor is the culture collection date when one is       *)
(* supplied and the assessment date otherwise; the window runs from anchor *)
(* - 3 days to anchor + 3 days (7 calendar days inclusive, containing the  *)
(* anchor); with no anchor the window is reported as not determined and no *)
(* date arithmetic is done.                                                *)
(***************************************************************************)
\* The calendar day a formatted date names (day 1 is 2025-01-01).
DayOfText(t) ==
    LET m   == CHOOSE k \in 1..12 : MonthAbbr[k] = t.b
        d   == t.d[1] * 10 + t.d[2]
        y   == IF m <= 2 THEN t.Y - 1 ELSE t.Y
        era == y \div 400
        yoe == y - era * 400
        doy == (153 * (IF m > 2 THEN m - 3 ELSE m + 9) + 2) \div 5 + d - 1
        doe == yoe * 365 + yoe \div 4 - yoe \div 100 + doy
    IN  era * 146097 + doe - 739556

\* The window text w names the seven days around calendar day a.
WindowAround(w, a) ==
    /\ w.text = "IWP"
    /\ DayOfText(w.start) = a - 3
    /\ DayOfText(w.end) = a + 3
    /\ Cardinality(DayOfText(w.start)..DayOfText(w.end)) = 7
    /\ a \in DayOfText(w.start)..DayOfText(w.end)

C12_InfectionWindow ==
    /\ (tab = "iwp_range_text" /\ out # Pending) =>
          IF inp.anchor = None
          THEN out.value = [text |-> NoAnchorText]
          ELSE WindowAround(out.value, inp.anchor[1])
    /\ (IsTab /\ Rendered /\ Determined) =>
          WindowAround(out.iwp, IF inp.cx_date # None THEN inp.cx_date[1]
                                ELSE inp.eval_date)

\* No anchor: the not-determined text and no dates.
C12_Witness ==
    /\ tab = "iwp_range_text" /\ out # Pending
    /\ inp.anchor = None
    /\ DOMAIN out.value = {"text"} /\ out.value.text = NoAnchorText

\* A tab run whose window follows a culture date other than the assessment
\* date and starts in the previous month.
C12_CultureAnchored ==
    /\ IsTab /\ Rendered /\ Determined
    /\ inp.cx_date # None /\ inp.cx_date # Some(inp.eval_date)
    /\ out.iwp.start.b = "Dec"

=============================================================================
